---- MODULE Spec2Model ----
(***************************************************************************)
(* A model of the replicating-tmux session server (src/bin/server.rs), of  *)
(* the pseudo-terminal layer it is built on (src/pty.rs, src/fd.rs) and of *)
(* its client program (src/bin/client.rs).                                 *)
(*                                                                         *)
(* Spec     : the server: the listener thread, the two pump threads of     *)
(*            every connection and the aggregator consumer, together with  *)
(*            their environment (the shell behind the PTY and the remote   *)
(*            ends of the sockets).                                        *)
(* FairSpec : Spec with weak fairness on every thread of the server; the   *)
(*            environment is never forced to act.                          *)
(* SpecPty  : the PTY layer on its own: Pty::open step by step with every  *)
(*            failure it can meet, then take_writer, try_clone_reader,     *)
(*            writes and drops on the session, over a descriptor table.    *)
(* SpecResize : resize calls on an open session, until it is dropped.      *)
(* SpecFd   : FileDescriptor values: new, duplicate, as_stdio, into_raw_fd *)
(*            and drop in every order, over the same descriptor table.     *)
(* SpecClient, FairSpecClient : the client program (src/bin/client.rs):    *)
(*            its draw thread and its input loop, with the server's side   *)
(*            of the connection as environment; the second one with weak   *)
(*            fairness on both threads.                                    *)
(***************************************************************************)
EXTENDS Integers, Sequences, FiniteSets, TLC

\* ------------------------------------------------------------------ bounds
MaxClients == 2     \* connections the environment may open
MaxOut == 2         \* output chunks the shell may produce
MaxIn == 2          \* input chunks the remote ends may send, all together
MaxChunkLen == 2    \* bytes in an input chunk
SockCap == 1        \* chunks a socket's send buffer holds

Clients == 1..MaxClients

\* What the environment does in one run. A run follows one profile: how many
\* connections are opened, how many chunks the shell produces (out) and the
\* remote ends send (inp), and whether a remote end may go away abruptly
\* (close), the shell may exit (exit) and accept may fail (accErr).
Profiles ==
  { [name |-> "fanout", clients |-> MaxClients, out |-> MaxOut, inp |-> 0,
     close |-> FALSE, exit |-> FALSE, accErr |-> FALSE],
    [name |-> "input", clients |-> MaxClients, out |-> 0, inp |-> MaxIn,
     close |-> FALSE, exit |-> FALSE, accErr |-> FALSE],
    [name |-> "depart", clients |-> MaxClients, out |-> 1, inp |-> 0,
     close |-> TRUE, exit |-> FALSE, accErr |-> FALSE],
    [name |-> "exit", clients |-> MaxClients, out |-> 0, inp |-> 1,
     close |-> FALSE, exit |-> TRUE, accErr |-> TRUE],
    [name |-> "hangup", clients |-> MaxClients, out |-> 0, inp |-> 0,
     close |-> TRUE, exit |-> FALSE, accErr |-> TRUE],
    [name |-> "late", clients |-> 1, out |-> 0, inp |-> MaxIn,
     close |-> FALSE, exit |-> TRUE, accErr |-> FALSE] }

VARIABLES
  profile,       \* the environment's profile in this run
  \* --- the shell and the kernel side of the PTY
  shellExited,   \* the child process has exited
  produced,      \* number of output chunks the shell has written so far
  ptyBuf,        \* output chunks (ids) waiting in the controller's read side
  ptyIn,         \* writes accepted by the PTY: <<[ch, acc]>>
  \* --- Server
  serverStop,    \* Server.stop
  registry,      \* Server.clients (Vec<Client>), as connection ids
  lstPc,         \* accept_clients thread: "loop","ptycheck","stopping","done"
  lstI,          \* position of the `for client in clients.iter()` loop
  stopLog,       \* the client.stop() calls of that loop: <<[c, ok]>>
  lastAccept,    \* how listener.accept() came back in this iteration: "none"
                 \* (not called yet), "ok", "would block", "error"
  aggEnd,        \* why the consumer left its loop: "none" (it has not),
                 \* "take_writer", "stop flag", "recv error", "write error"
  aggPc,         \* Server::process_input: "init","check","recv","done","exited"
  lateWrites,    \* pty_in.write calls the consumer made with Server.stop
                 \* already true (history)
  queue,         \* the mpsc channel of input chunks
  enqHist,       \* every chunk ever sent on the channel, in send order
  \* --- per connection
  conn,          \* "idle" (not connected yet) or "accepted"
  peerClosed,    \* the remote end has closed its socket
  sockShut,      \* stream.shutdown(Both) has succeeded on this socket
  stop,          \* Client.stop
  inPc,          \* Client::process_input thread: "none","check","read","done"
  outPc,         \* Client::process_output thread: "none","check","read","write","done"
  inHand,        \* chunk held by the output pump between PTY read and socket write
  sockFill,      \* chunks sitting in the socket's send buffer, not yet drained
  delivered,     \* chunks the output pump has written to the socket, in order
  attachAt,      \* value of `produced` when the connection was accepted
  departAt,      \* value of `produced` when the remote end closed (history)
  lastRead,      \* what the output pump's last pty_out.read returned
  \* --- PtyController
  writerTaken,   \* PtyController.writer_taken
  \* --- the PTY layer and the process's descriptor table
  fds,           \* the descriptors open in the process
  session,       \* Pty::open's position ("none", "grantpt", "unlockpt", "ptsname",
                 \* "open_worker", "as_stdio", "spawn", "return"), then "open" (it
                 \* returned Ok), "failed" (it returned Err) or "dropped"
  controllerFd,  \* controller_fd of Pty::open / PtyController.fd (-1: none)
  workerFd,      \* worker_fd of Pty::open (-1: none)
  stdioFds,      \* descriptors owned by the Stdio values given to the Command
  openErr,       \* spawn_command has returned Err
  writerFd,      \* the descriptor of the handle take_writer returned (-1: none)
  writerLive,    \* that handle has not been dropped by its owner
  readers,       \* descriptors of the live handles try_clone_reader returned
  takeLog,       \* the outcome of every take_writer call, in call order
  wroteAfter,    \* take_writer calls made before the last successful write
                 \* through the writer handle (-1: no write yet)
  winsize,       \* the terminal size the kernel holds for the PTY
  lastOk,        \* the PtySize of the last resize that returned Ok (history)
  resizeErr,     \* the last resize call returned Err
  \* --- FileDescriptor values (src/fd.rs)
  values,        \* every FileDescriptor value created: <<[fd, st]>>, st is "live",
                 \* "dropped" (Drop has run) or "forgotten" (into_raw_fd)
  closeLog,      \* every libc::close made by Drop: <<[by, fd, ok]>>
  rawFds,        \* descriptors released by into_raw_fd, owned by a Stdio
  \* --- the client program (src/bin/client.rs)
  cliConn,       \* its connection: "open", or "ended" by the server's side
  cliStop,       \* Client.stop
  cliOut,        \* the thread spawned by draw: "clear", "check", "read", "write",
                 \* "done" (it stored the flag and ended), "panicked"
  cliIn,         \* the main thread in process_input: "check", "stdin", "check2",
                 \* "write", "store", "print", then "exited"
  cliPending,    \* chunks the server has sent that the client has not read yet
  cliSent,       \* chunks the server has sent
  cliKeys,       \* reads of stdin that returned what the user typed
  cliNotice      \* "rstmux client exited" has been printed

vars == <<profile, shellExited, produced, ptyBuf, ptyIn, serverStop, registry, lstPc,
          lstI, stopLog, lastAccept, aggEnd, aggPc, lateWrites, queue, enqHist, conn,
          peerClosed, sockShut, stop, inPc, outPc, inHand, sockFill, delivered,
          attachAt, departAt, lastRead, writerTaken, fds, session, controllerFd,
          workerFd, stdioFds, openErr, writerFd, writerLive, readers, takeLog,
          wroteAfter, winsize, lastOk, resizeErr, values, closeLog, rawFds, cliConn,
          cliStop, cliOut, cliIn, cliPending, cliSent, cliKeys, cliNotice>>

\* ----------------------------------------------------------------- helpers
\* The bytes of an input chunk: byte i of chunk n, which client c's input
\* pump read from its socket (n counts the chunks read, over all clients).
Bytes(ch) == [i \in 1..ch.len |-> <<ch.c, ch.n, i>>]

RECURSIVE Flatten(_)
Flatten(ss) == IF ss = <<>> THEN <<>> ELSE Head(ss) \o Flatten(Tail(ss))

IsPrefix(s, t) == Len(s) <= Len(t) /\ SubSeq(t, 1, Len(s)) = s

Range(s) == {s[i] : i \in 1..Len(s)}

\* The process is alive until main returns (Server::run has returned).
Alive == aggPc # "exited"

\* ------------------------------------------------------- the PTY session
\* take_writer with `self.writer_taken.set(true)` left out.
take_writer_flag_unset(taken, dupOk) ==
  IF taken THEN [ok |-> FALSE, err |-> "writer already taken", taken |-> taken]
  ELSE IF ~dupOk THEN [ok |-> FALSE, err |-> "os error", taken |-> taken]
  ELSE [ok |-> TRUE, err |-> "none", taken |-> taken]

\* take_writer with the flag set before the descriptor is duplicated.
take_writer_set_first(taken, dupOk) ==
  IF taken THEN [ok |-> FALSE, err |-> "writer already taken", taken |-> taken]
  ELSE IF ~dupOk THEN [ok |-> FALSE, err |-> "os error", taken |-> TRUE]
  ELSE [ok |-> TRUE, err |-> "none", taken |-> TRUE]

\* PtyController::take_writer: the result of a call and the flag after it.
\* dupOk is the outcome of FileDescriptor::duplicate (fcntl F_DUPFD_CLOEXEC).
take_writer(taken, dupOk) ==
  IF taken THEN [ok |-> FALSE, err |-> "writer already taken", taken |-> taken]
  ELSE IF ~dupOk THEN [ok |-> FALSE, err |-> "os error", taken |-> taken]
  ELSE [ok |-> TRUE, err |-> "none", taken |-> TRUE]

\* Pty::stopped: whether the shell's child process has exited.
PtyStopped == shellExited

\* libc::write on the controller descriptor: -1, or the number of bytes
\* accepted, which may be fewer than the len bytes offered.
PtyWriteResults(len) == {-1} \cup (1..len)

\* std::sync::mpsc: send appends, recv takes the oldest message.
ChannelSend(q, ch) == Append(q, ch)
\* A consumer that takes the newest message instead.
ChannelRecvNewest(q) == [msg |-> q[Len(q)], rest |-> SubSeq(q, 1, Len(q) - 1)]
ChannelRecv(q) == [msg |-> Head(q), rest |-> Tail(q)]

\* Senders still alive: the listener closure's server_in and the clone
\* moved into every input pump thread.
SendersAlive == lstPc # "done" \/ \E c \in Clients : inPc[c] \in {"check", "read"}

\* UnixStream::shutdown(Both): fails (ENOTCONN) only on a socket whose peer
\* is already gone.
ShutdownResults(c) == IF peerClosed[c] THEN {TRUE, FALSE} ELSE {TRUE}

\* A read on this socket returns end-of-stream.
SockEof(c) == peerClosed[c] \/ sockShut[c]

\* ------------------------------------------------- reads on a descriptor
MaxRead == 2        \* bytes a libc::read may return

\* What libc::read can come back with: the size, and errno when it is -1.
Errnos == {"EIO", "EBADF", "EINTR", "EAGAIN"}
OsReads == [size : -1..MaxRead, errno : Errnos \cup {"none"}]

Ok(n) == [ok |-> TRUE, n |-> n, err |-> "none"]
Err(e) == [ok |-> FALSE, n |-> 0, err |-> e]
Unread == [ok |-> FALSE, n |-> 0, err |-> "unread"]

\* A read that hands every failure on, EIO included.
read_every_error(os) == IF os.size = -1 THEN Err(os.errno) ELSE Ok(os.size)

\* impl Read for FileDescriptor
read(os) ==
  IF os.size = -1
  THEN IF os.errno = "EIO" THEN Ok(0) ELSE Err(os.errno)
  ELSE Ok(os.size)

\* libc::read on a duplicate of the controller descriptor with a chunk
\* waiting: the chunk (one unit of output in this model).
ControllerReadData == [size |-> 1, errno |-> "none"]

\* libc::read on it once the worker side is closed and nothing is left:
\* -1 with EIO (Linux), or 0 (the BSDs).
ControllerReadGone == {[size |-> -1, errno |-> "EIO"], [size |-> 0, errno |-> "none"]}

\* ------------------------------------------------------------------ Init
SInit ==
  /\ shellExited = FALSE /\ produced = 0 /\ ptyBuf = <<>> /\ ptyIn = <<>>
  /\ serverStop = FALSE /\ registry = <<>> /\ lstPc = "loop" /\ lstI = 0
  /\ stopLog = <<>> /\ lastAccept = "none" /\ aggEnd = "none"
  /\ aggPc = "init" /\ queue = <<>> /\ enqHist = <<>> /\ lateWrites = 0
  /\ conn = [c \in Clients |-> "idle"]
  /\ peerClosed = [c \in Clients |-> FALSE]
  /\ sockShut = [c \in Clients |-> FALSE]
  /\ stop = [c \in Clients |-> FALSE]
  /\ inPc = [c \in Clients |-> "none"]
  /\ outPc = [c \in Clients |-> "none"]
  /\ inHand = [c \in Clients |-> 0]
  /\ sockFill = [c \in Clients |-> 0]
  /\ delivered = [c \in Clients |-> <<>>]
  /\ attachAt = [c \in Clients |-> 0]
  /\ departAt = [c \in Clients |-> 0]
  /\ lastRead = [c \in Clients |-> Unread]

\* The descriptors the process may hold: 0..2 are its standard streams.
FdLimit == 8
FdRange == 3..FdLimit
MaxCalls == 3       \* take_writer calls on the session
MaxReaders == 2     \* reader handles alive at a time

\* The kernel hands out the lowest free descriptor.
HasFree(table) == \E n \in FdRange : n \notin table
LowestFree(table) == CHOOSE n \in FdRange :
                       n \notin table /\ \A m \in FdRange : m \notin table => n <= m

\* Whether a call that allocates a descriptor (posix_openpt, open, fcntl
\* F_DUPFD_CLOEXEC) succeeds: never with the table full, and it may fail
\* otherwise too (the process's other descriptors count towards its limit).
AllocResults(table) == IF HasFree(table) THEN {TRUE, FALSE} ELSE {FALSE}

\* impl Drop for FileDescriptor: libc::close(self.fd)
Close(table, fd) == table \ {fd}

\* No FileDescriptor value is followed one by one.
FInit == values = <<>> /\ closeLog = <<>> /\ rawFds = {}

\* ------------------------------------------------------------ terminal size
MaxDim == 2         \* largest value of a dimension in a resize request

PtySizes == [rows : 0..MaxDim, cols : 0..MaxDim,
             pixel_width : 0..MaxDim, pixel_height : 0..MaxDim]

\* A conversion that swaps rows and columns.
to_winsize_swapped(size) ==
  [ws_row |-> size.cols, ws_col |-> size.rows,
   ws_xpixel |-> size.pixel_width, ws_ypixel |-> size.pixel_height]

\* PtyController::resize, the winsize it builds from the PtySize.
to_winsize(size) ==
  [ws_row |-> size.rows, ws_col |-> size.cols,
   ws_xpixel |-> size.pixel_width, ws_ypixel |-> size.pixel_height]

\* No resize has returned Ok yet.
NoResize == [rows |-> -1, cols |-> -1, pixel_width |-> -1, pixel_height |-> -1]

\* A PTY is opened with no size set.
UnsetSize == [ws_row |-> 0, ws_col |-> 0, ws_xpixel |-> 0, ws_ypixel |-> 0]

WInit == winsize = UnsetSize /\ lastOk = NoResize /\ resizeErr = FALSE

\* The client program after `UnixStream::connect` has succeeded and draw has
\* spawned its thread (client.rs:34-49).
CInit ==
  /\ cliConn = "open" /\ cliStop = FALSE /\ cliOut = "clear" /\ cliIn = "check"
  /\ cliPending = 0 /\ cliSent = 0 /\ cliKeys = 0 /\ cliNotice = FALSE

\* The server starts from a session Pty::open has returned (server.rs:224).
Init ==
  /\ profile \in Profiles
  /\ FInit /\ CInit /\ WInit
  /\ SInit /\ writerTaken = FALSE
  /\ fds = {3} /\ session = "open" /\ controllerFd = 3 /\ workerFd = -1
  /\ stdioFds = {} /\ openErr = FALSE
  /\ writerFd = -1 /\ writerLive = FALSE /\ readers = {} /\ takeLog = <<>>
  /\ wroteAfter = -1

\* ----------------------------------------------------------- environment
\* The shell writes one more chunk of output to its terminal.
ShellProduce ==
  /\ Alive /\ ~shellExited /\ produced < profile.out
  /\ produced' = produced + 1
  /\ ptyBuf' = Append(ptyBuf, produced + 1)
  /\ UNCHANGED <<profile, shellExited, ptyIn, serverStop, registry, lstPc, lstI, stopLog,
                 lastAccept, aggEnd, aggPc, lateWrites, queue, enqHist, conn, peerClosed,
                 sockShut, stop, inPc, outPc, inHand, sockFill, delivered, attachAt,
                 departAt, lastRead, writerTaken, fds, session, controllerFd, workerFd,
                 stdioFds, openErr, writerFd, writerLive, readers, takeLog, wroteAfter,
                 winsize, lastOk, resizeErr, values, closeLog, rawFds, cliConn, cliStop,
                 cliOut, cliIn, cliPending, cliSent, cliKeys, cliNotice>>

\* The shell's child process exits.
ShellExit ==
  /\ Alive /\ profile.exit /\ ~shellExited
  /\ shellExited' = TRUE
  /\ UNCHANGED <<profile, produced, ptyBuf, ptyIn, serverStop, registry, lstPc, lstI,
                 stopLog, lastAccept, aggEnd, aggPc, lateWrites, queue, enqHist, conn,
                 peerClosed, sockShut, stop, inPc, outPc, inHand, sockFill, delivered,
                 attachAt, departAt, lastRead, writerTaken, fds, session, controllerFd,
                 workerFd, stdioFds, openErr, writerFd, writerLive, readers, takeLog,
                 wroteAfter, winsize, lastOk, resizeErr, values, closeLog, rawFds, cliConn,
                 cliStop, cliOut, cliIn, cliPending, cliSent, cliKeys, cliNotice>>

\* The remote end of an established connection goes away abruptly.
ClientClose(c) ==
  /\ Alive /\ profile.close /\ conn[c] = "accepted" /\ ~peerClosed[c]
  /\ peerClosed' = [peerClosed EXCEPT ![c] = TRUE]
  /\ departAt' = [departAt EXCEPT ![c] = produced]
  /\ UNCHANGED <<profile, shellExited, produced, ptyBuf, ptyIn, serverStop, registry,
                 lstPc, lstI, stopLog, lastAccept, aggEnd, aggPc, lateWrites, queue,
                 enqHist, conn, sockShut, stop, inPc, outPc, inHand, sockFill, delivered,
                 attachAt, lastRead, writerTaken, fds, session, controllerFd, workerFd,
                 stdioFds, openErr, writerFd, writerLive, readers, takeLog, wroteAfter,
                 winsize, lastOk, resizeErr, values, closeLog, rawFds, cliConn, cliStop,
                 cliOut, cliIn, cliPending, cliSent, cliKeys, cliNotice>>

\* The remote end reads one chunk out of its socket.
ClientDrain(c) ==
  /\ Alive /\ conn[c] = "accepted" /\ ~peerClosed[c] /\ sockFill[c] > 0
  /\ sockFill' = [sockFill EXCEPT ![c] = @ - 1]
  /\ UNCHANGED <<profile, shellExited, produced, ptyBuf, ptyIn, serverStop, registry,
                 lstPc, lstI, stopLog, lastAccept, aggEnd, aggPc, lateWrites, queue,
                 enqHist, conn, peerClosed, sockShut, stop, inPc, outPc, inHand, delivered,
                 attachAt, departAt, lastRead, writerTaken, fds, session, controllerFd,
                 workerFd, stdioFds, openErr, writerFd, writerLive, readers, takeLog,
                 wroteAfter, winsize, lastOk, resizeErr, values, closeLog, rawFds, cliConn,
                 cliStop, cliOut, cliIn, cliPending, cliSent, cliKeys, cliNotice>>

\* -------------------------------------------- Client (one per connection)
\* A pump that raises the flag of every connection.
StoreAll(flags, c) == [d \in Clients |-> TRUE]

\* `stop.store(true, Relaxed)` after a pump's loop: stop is the pump's clone
\* of its own connection's flag.
StoreStop(flags, c) == [flags EXCEPT ![c] = TRUE]

\* Client::process_input thread, `if stop.load(Relaxed) { break; }`, then
\* (after the loop) `stop.store(true, Relaxed)`.
InCheckStop(c) ==
  /\ Alive /\ inPc[c] = "check"
  /\ inPc' = [inPc EXCEPT ![c] = IF stop[c] THEN "done" ELSE "read"]
  /\ UNCHANGED <<profile, shellExited, produced, ptyBuf, ptyIn, serverStop, registry,
                 lstPc, lstI, stopLog, lastAccept, aggEnd, aggPc, lateWrites, queue,
                 enqHist, conn, peerClosed, sockShut, stop, outPc, inHand, sockFill,
                 delivered, attachAt, departAt, lastRead, writerTaken, fds, session,
                 controllerFd, workerFd, stdioFds, openErr, writerFd, writerLive, readers,
                 takeLog, wroteAfter, winsize, lastOk, resizeErr, values, closeLog, rawFds,
                 cliConn, cliStop, cliOut, cliIn, cliPending, cliSent, cliKeys, cliNotice>>

\* client_out.read returns a chunk of len bytes sent by the remote end; the
\* pump sends it on the channel. The send fails once the receiver is gone
\* (Server::process_input has returned), and the pump leaves its loop.
InReadData(c) ==
  /\ Alive /\ inPc[c] = "read" /\ ~SockEof(c)
  /\ Len(enqHist) < profile.inp
  /\ \E len \in 1..MaxChunkLen :
       LET ch == [c |-> c, n |-> Len(enqHist) + 1, len |-> len] IN
       /\ IF aggPc = "done"
          THEN /\ inPc' = [inPc EXCEPT ![c] = "done"]
               /\ stop' = StoreStop(stop, c)
               /\ UNCHANGED <<queue, enqHist>>
          ELSE /\ queue' = ChannelSend(queue, ch)
               /\ enqHist' = Append(enqHist, ch)
               /\ inPc' = [inPc EXCEPT ![c] = "check"]
               /\ UNCHANGED stop
  /\ UNCHANGED <<profile, shellExited, produced, ptyBuf, ptyIn, serverStop, registry,
                 lstPc, lstI, stopLog, lastAccept, aggEnd, aggPc, lateWrites, conn,
                 peerClosed, sockShut, outPc, inHand, sockFill, delivered, attachAt,
                 departAt, lastRead, writerTaken, fds, session, controllerFd, workerFd,
                 stdioFds, openErr, writerFd, writerLive, readers, takeLog, wroteAfter,
                 winsize, lastOk, resizeErr, values, closeLog, rawFds, cliConn, cliStop,
                 cliOut, cliIn, cliPending, cliSent, cliKeys, cliNotice>>

\* client_out.read returns Ok(0) or an error: the pump leaves its loop and
\* stores the stop flag. The socket is not touched.
InReadEof(c) ==
  /\ Alive /\ inPc[c] = "read" /\ SockEof(c)
  /\ inPc' = [inPc EXCEPT ![c] = "done"]
  /\ stop' = StoreStop(stop, c)
  /\ UNCHANGED <<profile, shellExited, produced, ptyBuf, ptyIn, serverStop, registry,
                 lstPc, lstI, stopLog, lastAccept, aggEnd, aggPc, lateWrites, queue,
                 enqHist, conn, peerClosed, sockShut, outPc, inHand, sockFill, delivered,
                 attachAt, departAt, lastRead, writerTaken, fds, session, controllerFd,
                 workerFd, stdioFds, openErr, writerFd, writerLive, readers, takeLog,
                 wroteAfter, winsize, lastOk, resizeErr, values, closeLog, rawFds, cliConn,
                 cliStop, cliOut, cliIn, cliPending, cliSent, cliKeys, cliNotice>>

\* Client::process_output thread, the stop check at the top of its loop.
OutCheckStop(c) ==
  /\ Alive /\ outPc[c] = "check"
  /\ outPc' = [outPc EXCEPT ![c] = IF stop[c] THEN "done" ELSE "read"]
  /\ UNCHANGED <<profile, shellExited, produced, ptyBuf, ptyIn, serverStop, registry,
                 lstPc, lstI, stopLog, lastAccept, aggEnd, aggPc, lateWrites, queue,
                 enqHist, conn, peerClosed, sockShut, stop, inPc, inHand, sockFill,
                 delivered, attachAt, departAt, lastRead, writerTaken, fds, session,
                 controllerFd, workerFd, stdioFds, openErr, writerFd, writerLive, readers,
                 takeLog, wroteAfter, winsize, lastOk, resizeErr, values, closeLog, rawFds,
                 cliConn, cliStop, cliOut, cliIn, cliPending, cliSent, cliKeys, cliNotice>>

\* What pty_out.read hands to the pump that calls it: the pump's reader is a
\* duplicate of the controller descriptor, so it takes the oldest chunk out of
\* the one kernel buffer all the duplicates share.
PtyRead(buf) == [chunk |-> Head(buf), rest |-> Tail(buf)]

\* pty_out.read returns a chunk.
OutReadData(c) ==
  /\ Alive /\ outPc[c] = "read" /\ ptyBuf # <<>>
  /\ LET r == read(ControllerReadData) IN
       /\ r.ok /\ r.n > 0
       /\ lastRead' = [lastRead EXCEPT ![c] = r]
  /\ inHand' = [inHand EXCEPT ![c] = PtyRead(ptyBuf).chunk]
  /\ ptyBuf' = PtyRead(ptyBuf).rest
  /\ outPc' = [outPc EXCEPT ![c] = "write"]
  /\ UNCHANGED <<profile, shellExited, produced, ptyIn, serverStop, registry, lstPc, lstI,
                 stopLog, lastAccept, aggEnd, aggPc, lateWrites, queue, enqHist, conn,
                 peerClosed, sockShut, stop, inPc, sockFill, delivered, attachAt, departAt,
                 writerTaken, fds, session, controllerFd, workerFd, stdioFds, openErr,
                 writerFd, writerLive, readers, takeLog, wroteAfter, winsize, lastOk,
                 resizeErr, values, closeLog, rawFds, cliConn, cliStop, cliOut, cliIn,
                 cliPending, cliSent, cliKeys, cliNotice>>

\* pty_out.read with the worker side gone and nothing left to read. Whether it
\* returns Ok(0) (`break; // EOF`) or an error (`_ => break`), the pump leaves
\* its loop and stores the flag.
OutReadEof(c) ==
  /\ Alive /\ outPc[c] = "read" /\ ptyBuf = <<>> /\ shellExited
  /\ \E os \in ControllerReadGone :
       /\ ~read(os).ok \/ read(os).n = 0
       /\ lastRead' = [lastRead EXCEPT ![c] = read(os)]
  /\ outPc' = [outPc EXCEPT ![c] = "done"]
  /\ stop' = StoreStop(stop, c)
  /\ UNCHANGED <<profile, shellExited, produced, ptyBuf, ptyIn, serverStop, registry,
                 lstPc, lstI, stopLog, lastAccept, aggEnd, aggPc, lateWrites, queue,
                 enqHist, conn, peerClosed, sockShut, inPc, inHand, sockFill, delivered,
                 attachAt, departAt, writerTaken, fds, session, controllerFd, workerFd,
                 stdioFds, openErr, writerFd, writerLive, readers, takeLog, wroteAfter,
                 winsize, lastOk, resizeErr, values, closeLog, rawFds, cliConn, cliStop,
                 cliOut, cliIn, cliPending, cliSent, cliKeys, cliNotice>>

\* client_in.write(&data) succeeds: there is room in the socket buffer.
OutWriteOk(c) ==
  /\ Alive /\ outPc[c] = "write" /\ ~SockEof(c) /\ sockFill[c] < SockCap
  /\ delivered' = [delivered EXCEPT ![c] = Append(@, inHand[c])]
  /\ sockFill' = [sockFill EXCEPT ![c] = @ + 1]
  /\ inHand' = [inHand EXCEPT ![c] = 0]
  /\ outPc' = [outPc EXCEPT ![c] = "check"]
  /\ UNCHANGED <<profile, shellExited, produced, ptyBuf, ptyIn, serverStop, registry,
                 lstPc, lstI, stopLog, lastAccept, aggEnd, aggPc, lateWrites, queue,
                 enqHist, conn, peerClosed, sockShut, stop, inPc, attachAt, departAt,
                 lastRead, writerTaken, fds, session, controllerFd, workerFd, stdioFds,
                 openErr, writerFd, writerLive, readers, takeLog, wroteAfter, winsize,
                 lastOk, resizeErr, values, closeLog, rawFds, cliConn, cliStop, cliOut,
                 cliIn, cliPending, cliSent, cliKeys, cliNotice>>

\* client_in.write(&data) fails (the socket is shut down or the peer is
\* gone): the chunk is dropped, the pump leaves its loop and stores the flag.
OutWriteErr(c) ==
  /\ Alive /\ outPc[c] = "write" /\ SockEof(c)
  /\ inHand' = [inHand EXCEPT ![c] = 0]
  /\ outPc' = [outPc EXCEPT ![c] = "done"]
  /\ stop' = StoreStop(stop, c)
  /\ UNCHANGED <<profile, shellExited, produced, ptyBuf, ptyIn, serverStop, registry,
                 lstPc, lstI, stopLog, lastAccept, aggEnd, aggPc, lateWrites, queue,
                 enqHist, conn, peerClosed, sockShut, inPc, sockFill, delivered, attachAt,
                 departAt, lastRead, writerTaken, fds, session, controllerFd, workerFd,
                 stdioFds, openErr, writerFd, writerLive, readers, takeLog, wroteAfter,
                 winsize, lastOk, resizeErr, values, closeLog, rawFds, cliConn, cliStop,
                 cliOut, cliIn, cliPending, cliSent, cliKeys, cliNotice>>

\* ---------------------------------------------------------------- Server
\* Client::stop: shut the socket down, and only then store the flag; a
\* failed shutdown returns early (`?`) and leaves the flag alone.
ClientStop(c, ok) ==
  IF ok THEN /\ sockShut' = [sockShut EXCEPT ![c] = TRUE]
             /\ stop' = [stop EXCEPT ![c] = TRUE]
        ELSE UNCHANGED <<sockShut, stop>>

\* clients.retain(|c| !c.stopped())
Retain(reg) == SelectSeq(reg, LAMBDA c : ~stop[c])

\* The connection listener.accept() returns when one is waiting: the next
\* client program to connect (src/bin/client.rs:34), in id order.
NextPending == CHOOSE c \in Clients :
                 conn[c] = "idle" /\ \A d \in Clients : conn[d] = "idle" => c <= d

\* A listener that takes every accept error, WouldBlock too, as fatal.
AfterAcceptFatal(outcome) == IF outcome = "ok" THEN "ptycheck" ELSE "stopping"

\* Where the `match listener.accept()` leaves the thread: on Ok and on
\* WouldBlock it goes on to the poll of the child, on `_ => break` to the
\* loop over the registry.
AfterAccept(outcome) == IF outcome = "error" THEN "stopping" ELSE "ptycheck"

\* accept_clients thread: the stop check at the top of the loop finds the
\* flag set and breaks.
ListenerBreak ==
  /\ Alive /\ lstPc = "loop" /\ serverStop
  /\ lstPc' = "stopping" /\ lstI' = 1
  /\ UNCHANGED <<profile, shellExited, produced, ptyBuf, ptyIn, serverStop, registry,
                 stopLog, lastAccept, aggEnd, aggPc, lateWrites, queue, enqHist, conn,
                 peerClosed, sockShut, stop, inPc, outPc, inHand, sockFill, delivered,
                 attachAt, departAt, lastRead, writerTaken, fds, session, controllerFd,
                 workerFd, stdioFds, openErr, writerFd, writerLive, readers, takeLog,
                 wroteAfter, winsize, lastOk, resizeErr, values, closeLog, rawFds, cliConn,
                 cliStop, cliOut, cliIn, cliPending, cliSent, cliKeys, cliNotice>>

\* listener.accept() returns a stream: the connection gets its reader (a
\* duplicate of the controller descriptor) and its two pump threads, the
\* stopped entries are evicted from the registry and the new one is pushed.
ListenerAccept ==
  /\ Alive /\ lstPc = "loop" /\ ~serverStop
  /\ \E c \in Clients : conn[c] = "idle" /\ c <= profile.clients
  /\ LET c == NextPending IN
       /\ conn' = [conn EXCEPT ![c] = "accepted"]
       /\ outPc' = [outPc EXCEPT ![c] = "check"]
       /\ inPc' = [inPc EXCEPT ![c] = "check"]
       /\ attachAt' = [attachAt EXCEPT ![c] = produced]
       /\ registry' = Append(Retain(registry), c)
  /\ lstPc' = AfterAccept("ok") /\ lastAccept' = "ok"
  /\ UNCHANGED <<profile, shellExited, produced, ptyBuf, ptyIn, serverStop, lstI, stopLog,
                 aggEnd, aggPc, lateWrites, queue, enqHist, peerClosed, sockShut, stop,
                 inHand, sockFill, delivered, departAt, lastRead, writerTaken, fds,
                 session, controllerFd, workerFd, stdioFds, openErr, writerFd, writerLive,
                 readers, takeLog, wroteAfter, winsize, lastOk, resizeErr, values,
                 closeLog, rawFds, cliConn, cliStop, cliOut, cliIn, cliPending, cliSent,
                 cliKeys, cliNotice>>

\* listener.accept() would block: sleep, then go on with the iteration.
ListenerWouldBlock ==
  /\ Alive /\ lstPc = "loop" /\ ~serverStop
  /\ lstPc' = AfterAccept("would block") /\ lastAccept' = "would block"
  /\ lstI' = IF lstPc' = "stopping" THEN 1 ELSE lstI
  /\ UNCHANGED <<profile, shellExited, produced, ptyBuf, ptyIn, serverStop, registry,
                 stopLog, aggEnd, aggPc, lateWrites, queue, enqHist, conn, peerClosed,
                 sockShut, stop, inPc, outPc, inHand, sockFill, delivered, attachAt,
                 departAt, lastRead, writerTaken, fds, session, controllerFd, workerFd,
                 stdioFds, openErr, writerFd, writerLive, readers, takeLog, wroteAfter,
                 winsize, lastOk, resizeErr, values, closeLog, rawFds, cliConn, cliStop,
                 cliOut, cliIn, cliPending, cliSent, cliKeys, cliNotice>>

\* listener.accept() fails with any other error: break.
ListenerAcceptErr ==
  /\ Alive /\ profile.accErr /\ lstPc = "loop" /\ ~serverStop
  /\ lstPc' = AfterAccept("error") /\ lastAccept' = "error"
  /\ lstI' = IF lstPc' = "stopping" THEN 1 ELSE lstI
  /\ UNCHANGED <<profile, shellExited, produced, ptyBuf, ptyIn, serverStop, registry,
                 stopLog, aggEnd, aggPc, lateWrites, queue, enqHist, conn, peerClosed,
                 sockShut, stop, inPc, outPc, inHand, sockFill, delivered, attachAt,
                 departAt, lastRead, writerTaken, fds, session, controllerFd, workerFd,
                 stdioFds, openErr, writerFd, writerLive, readers, takeLog, wroteAfter,
                 winsize, lastOk, resizeErr, values, closeLog, rawFds, cliConn, cliStop,
                 cliOut, cliIn, cliPending, cliSent, cliKeys, cliNotice>>

\* A poll that stores its result, whatever it is (`stop.store(stopped)`).
StorePolled(flag, stopped) == stopped

\* `if stopped { stop.store(true, Relaxed) }`: the flag after the poll.
StoreIfStopped(flag, stopped) == IF stopped THEN TRUE ELSE flag

\* `if pty.lock().unwrap().stopped().unwrap() { stop.store(true) }`
ListenerCheckPty ==
  /\ Alive /\ lstPc = "ptycheck"
  /\ serverStop' = StoreIfStopped(serverStop, PtyStopped)
  /\ lstPc' = "loop" /\ lastAccept' = "none"
  /\ UNCHANGED <<profile, shellExited, produced, ptyBuf, ptyIn, registry, lstI, stopLog,
                 aggEnd, aggPc, lateWrites, queue, enqHist, conn, peerClosed, sockShut,
                 stop, inPc, outPc, inHand, sockFill, delivered, attachAt, departAt,
                 lastRead, writerTaken, fds, session, controllerFd, workerFd, stdioFds,
                 openErr, writerFd, writerLive, readers, takeLog, wroteAfter, winsize,
                 lastOk, resizeErr, values, closeLog, rawFds, cliConn, cliStop, cliOut,
                 cliIn, cliPending, cliSent, cliKeys, cliNotice>>

\* A loop that gives up at the first failed stop (`client.stop()?`).
AfterStopPropagating(i, ok, n) == IF ok THEN i + 1 ELSE n + 1

\* `let _ = client.stop();`: the result is discarded and the loop over the
\* n entries goes on to the next one.
AfterStop(i, ok, n) == i + 1

\* One turn of `for client in clients.iter() { let _ = client.stop(); }`
ListenerStopClient ==
  /\ Alive /\ lstPc = "stopping" /\ lstI <= Len(registry)
  /\ \E ok \in ShutdownResults(registry[lstI]) :
       /\ ClientStop(registry[lstI], ok)
       /\ stopLog' = Append(stopLog, [c |-> registry[lstI], ok |-> ok])
       /\ lstI' = AfterStop(lstI, ok, Len(registry))
  /\ UNCHANGED <<profile, shellExited, produced, ptyBuf, ptyIn, serverStop, registry,
                 lstPc, lastAccept, aggEnd, aggPc, lateWrites, queue, enqHist, conn,
                 peerClosed, inPc, outPc, inHand, sockFill, delivered, attachAt, departAt,
                 lastRead, writerTaken, fds, session, controllerFd, workerFd, stdioFds,
                 openErr, writerFd, writerLive, readers, takeLog, wroteAfter, winsize,
                 lastOk, resizeErr, values, closeLog, rawFds, cliConn, cliStop, cliOut,
                 cliIn, cliPending, cliSent, cliKeys, cliNotice>>

\* After the loop over the registry: `stop.store(true, Relaxed)`; the thread
\* ends and its Sender is dropped.
ListenerDone ==
  /\ Alive /\ lstPc = "stopping" /\ lstI > Len(registry)
  /\ serverStop' = TRUE
  /\ lstPc' = "done"
  /\ UNCHANGED <<profile, shellExited, produced, ptyBuf, ptyIn, registry, lstI, stopLog,
                 lastAccept, aggEnd, aggPc, lateWrites, queue, enqHist, conn, peerClosed,
                 sockShut, stop, inPc, outPc, inHand, sockFill, delivered, attachAt,
                 departAt, lastRead, writerTaken, fds, session, controllerFd, workerFd,
                 stdioFds, openErr, writerFd, writerLive, readers, takeLog, wroteAfter,
                 winsize, lastOk, resizeErr, values, closeLog, rawFds, cliConn, cliStop,
                 cliOut, cliIn, cliPending, cliSent, cliKeys, cliNotice>>

\* Server::process_input, `self.pty.lock().unwrap().take_writer()?`: an error
\* is returned to run(), whose unwrap ends the process.
AggTakeWriter ==
  /\ aggPc = "init"
  /\ \E dupOk \in BOOLEAN :
       LET r == take_writer(writerTaken, dupOk) IN
       /\ writerTaken' = r.taken
       /\ aggPc' = IF r.ok THEN "check" ELSE "exited"
       /\ aggEnd' = IF r.ok THEN aggEnd ELSE "take_writer"
  /\ UNCHANGED <<profile, shellExited, produced, ptyBuf, ptyIn, serverStop, registry,
                 lstPc, lstI, stopLog, lastAccept, lateWrites, queue, enqHist, conn,
                 peerClosed, sockShut, stop, inPc, outPc, inHand, sockFill, delivered,
                 attachAt, departAt, lastRead, fds, session, controllerFd, workerFd,
                 stdioFds, openErr, writerFd, writerLive, readers, takeLog, wroteAfter,
                 winsize, lastOk, resizeErr, values, closeLog, rawFds, cliConn, cliStop,
                 cliOut, cliIn, cliPending, cliSent, cliKeys, cliNotice>>

\* A consumer's loop without the stop check: it goes on to recv.
AfterStopCheckSkipped(flag) == "recv"

\* `if stop.load(Relaxed) { break; }` at the top of the consumer's loop: out
\* of the loop with the flag set, on to aggregated_input.recv() otherwise.
AfterStopCheck(flag) == IF flag THEN "done" ELSE "recv"

\* The stop check at the top of the consumer's loop.
AggCheckStop ==
  /\ aggPc = "check"
  /\ aggPc' = AfterStopCheck(serverStop)
  /\ aggEnd' = IF aggPc' = "done" THEN "stop flag" ELSE aggEnd
  /\ UNCHANGED <<profile, shellExited, produced, ptyBuf, ptyIn, serverStop, registry,
                 lstPc, lstI, stopLog, lastAccept, lateWrites, queue, enqHist, conn,
                 peerClosed, sockShut, stop, inPc, outPc, inHand, sockFill, delivered,
                 attachAt, departAt, lastRead, writerTaken, fds, session, controllerFd,
                 workerFd, stdioFds, openErr, writerFd, writerLive, readers, takeLog,
                 wroteAfter, winsize, lastOk, resizeErr, values, closeLog, rawFds, cliConn,
                 cliStop, cliOut, cliIn, cliPending, cliSent, cliKeys, cliNotice>>

\* aggregated_input.recv() returns a chunk and `pty_in.write(&buf)` is called
\* once: an error breaks out of the loop (and the flag is stored), any count
\* of accepted bytes continues it.
AggRecv ==
  /\ aggPc = "recv" /\ queue # <<>>
  /\ lateWrites' = IF serverStop THEN lateWrites + 1 ELSE lateWrites
  /\ LET m == ChannelRecv(queue) IN
       /\ queue' = m.rest
       /\ \E r \in PtyWriteResults(m.msg.len) :
            IF r = -1
            THEN /\ aggPc' = "done" /\ serverStop' = TRUE /\ UNCHANGED ptyIn
                 /\ aggEnd' = "write error"
            ELSE /\ ptyIn' = Append(ptyIn, [ch |-> m.msg, acc |-> r])
                 /\ aggPc' = "check" /\ UNCHANGED <<serverStop, aggEnd>>
  /\ UNCHANGED <<profile, shellExited, produced, ptyBuf, registry, lstPc, lstI, stopLog,
                 lastAccept, enqHist, conn, peerClosed, sockShut, stop, inPc, outPc,
                 inHand, sockFill, delivered, attachAt, departAt, lastRead, writerTaken,
                 fds, session, controllerFd, workerFd, stdioFds, openErr, writerFd,
                 writerLive, readers, takeLog, wroteAfter, winsize, lastOk, resizeErr,
                 values, closeLog, rawFds, cliConn, cliStop, cliOut, cliIn, cliPending,
                 cliSent, cliKeys, cliNotice>>

\* aggregated_input.recv() returns Err: the channel is empty and every
\* Sender has been dropped.
AggDisconnected ==
  /\ aggPc = "recv" /\ queue = <<>> /\ ~SendersAlive
  /\ aggPc' = "done" /\ serverStop' = TRUE /\ aggEnd' = "recv error"
  /\ UNCHANGED <<profile, shellExited, produced, ptyBuf, ptyIn, registry, lstPc, lstI,
                 stopLog, lastAccept, lateWrites, queue, enqHist, conn, peerClosed,
                 sockShut, stop, inPc, outPc, inHand, sockFill, delivered, attachAt,
                 departAt, lastRead, writerTaken, fds, session, controllerFd, workerFd,
                 stdioFds, openErr, writerFd, writerLive, readers, takeLog, wroteAfter,
                 winsize, lastOk, resizeErr, values, closeLog, rawFds, cliConn, cliStop,
                 cliOut, cliIn, cliPending, cliSent, cliKeys, cliNotice>>

\* Server::run has returned: main returns and the process, with every
\* thread still in it, is gone.
ProcessExit ==
  /\ aggPc = "done"
  /\ aggPc' = "exited"
  /\ UNCHANGED <<profile, shellExited, produced, ptyBuf, ptyIn, serverStop, registry,
                 lstPc, lstI, stopLog, lastAccept, aggEnd, lateWrites, queue, enqHist,
                 conn, peerClosed, sockShut, stop, inPc, outPc, inHand, sockFill,
                 delivered, attachAt, departAt, lastRead, writerTaken, fds, session,
                 controllerFd, workerFd, stdioFds, openErr, writerFd, writerLive, readers,
                 takeLog, wroteAfter, winsize, lastOk, resizeErr, values, closeLog, rawFds,
                 cliConn, cliStop, cliOut, cliIn, cliPending, cliSent, cliKeys, cliNotice>>

\* ----------------------------------------------------- the specifications
Environment ==
  \/ ShellProduce
  \/ ShellExit
  \/ \E c \in Clients : ClientClose(c)
  \/ \E c \in Clients : ClientDrain(c)

InputPump(c) == InCheckStop(c) \/ InReadEof(c)
OutputPump(c) == OutCheckStop(c) \/ OutReadData(c) \/ OutReadEof(c) \/ OutWriteOk(c) \/ OutWriteErr(c)
Listener ==
  \/ ListenerBreak \/ ListenerAccept \/ ListenerWouldBlock \/ ListenerCheckPty
  \/ ListenerStopClient \/ ListenerDone
Aggregator == AggTakeWriter \/ AggCheckStop \/ AggRecv \/ AggDisconnected

Next ==
  \/ Environment
  \/ \E c \in Clients : InputPump(c)
  \/ \E c \in Clients : InReadData(c)
  \/ \E c \in Clients : OutputPump(c)
  \/ Listener
  \/ ListenerAcceptErr
  \/ Aggregator
  \/ ProcessExit

Spec == Init /\ [][Next]_vars

\* Every thread of the server that can take a step eventually takes one. Data
\* arriving on a socket (InReadData), an accept failure and everything the
\* environment does are never forced.
Fairness ==
  /\ \A c \in Clients : WF_vars(InputPump(c))
  /\ \A c \in Clients : WF_vars(OutputPump(c))
  /\ WF_vars(Listener)
  /\ WF_vars(Aggregator)
  /\ WF_vars(ProcessExit)

FairSpec == Init /\ [][Next]_vars /\ Fairness

\* ----------------------------------------------------------- the PTY layer
\* The PTY layer is exercised on its own: no connection, no traffic.
NoTraffic == [name |-> "pty", clients |-> 0, out |-> 0, inp |-> 0,
              close |-> FALSE, exit |-> FALSE, accErr |-> FALSE]

InitPty ==
  /\ profile = NoTraffic
  /\ FInit /\ CInit /\ WInit
  /\ SInit /\ writerTaken = FALSE
  /\ fds = {} /\ session = "none" /\ controllerFd = -1 /\ workerFd = -1
  /\ stdioFds = {} /\ openErr = FALSE
  /\ writerFd = -1 /\ writerLive = FALSE /\ readers = {} /\ takeLog = <<>>
  /\ wroteAfter = -1

\* Pty::open, `libc::posix_openpt(FLAGS)`; a negative result returns Err.
OpenPosixOpenpt ==
  /\ session = "none"
  /\ \E ok \in AllocResults(fds) :
       IF ok THEN /\ controllerFd' = LowestFree(fds)
                  /\ fds' = fds \cup {LowestFree(fds)}
                  /\ session' = "grantpt"
             ELSE /\ session' = "failed" /\ UNCHANGED <<controllerFd, fds>>
  /\ UNCHANGED <<profile, shellExited, produced, ptyBuf, ptyIn, serverStop, registry,
                 lstPc, lstI, stopLog, lastAccept, aggEnd, aggPc, lateWrites, queue,
                 enqHist, conn, peerClosed, sockShut, stop, inPc, outPc, inHand, sockFill,
                 delivered, attachAt, departAt, lastRead, writerTaken, workerFd, stdioFds,
                 openErr, writerFd, writerLive, readers, takeLog, wroteAfter, winsize,
                 lastOk, resizeErr, values, closeLog, rawFds, cliConn, cliStop, cliOut,
                 cliIn, cliPending, cliSent, cliKeys, cliNotice>>

\* Where Pty::open goes after grantpt, unlockpt and ptsname succeed.
AfterStep(step) ==
  CASE step = "grantpt" -> "unlockpt"
    [] step = "unlockpt" -> "ptsname"
    [] step = "ptsname" -> "open_worker"

\* libc::grantpt, libc::unlockpt, libc::ptsname on controller_fd: on failure
\* `return Err(io::Error::last_os_error())`, and nothing else.
OpenControllerStep ==
  /\ session \in {"grantpt", "unlockpt", "ptsname"}
  /\ \E ok \in BOOLEAN : session' = IF ok THEN AfterStep(session) ELSE "failed"
  /\ UNCHANGED <<profile, shellExited, produced, ptyBuf, ptyIn, serverStop, registry,
                 lstPc, lstI, stopLog, lastAccept, aggEnd, aggPc, lateWrites, queue,
                 enqHist, conn, peerClosed, sockShut, stop, inPc, outPc, inHand, sockFill,
                 delivered, attachAt, departAt, lastRead, writerTaken, fds, controllerFd,
                 workerFd, stdioFds, openErr, writerFd, writerLive, readers, takeLog,
                 wroteAfter, winsize, lastOk, resizeErr, values, closeLog, rawFds, cliConn,
                 cliStop, cliOut, cliIn, cliPending, cliSent, cliKeys, cliNotice>>

\* `libc::open(worker_name_ptr, FLAGS)`; on success the descriptor is wrapped
\* in the FileDescriptor of a PtyWorker.
OpenWorker ==
  /\ session = "open_worker"
  /\ \E ok \in AllocResults(fds) :
       IF ok THEN /\ workerFd' = LowestFree(fds)
                  /\ fds' = fds \cup {LowestFree(fds)}
                  /\ session' = "as_stdio"
             ELSE /\ session' = "failed" /\ UNCHANGED <<workerFd, fds>>
  /\ UNCHANGED <<profile, shellExited, produced, ptyBuf, ptyIn, serverStop, registry,
                 lstPc, lstI, stopLog, lastAccept, aggEnd, aggPc, lateWrites, queue,
                 enqHist, conn, peerClosed, sockShut, stop, inPc, outPc, inHand, sockFill,
                 delivered, attachAt, departAt, lastRead, writerTaken, controllerFd,
                 stdioFds, openErr, writerFd, writerLive, readers, takeLog, wroteAfter,
                 winsize, lastOk, resizeErr, values, closeLog, rawFds, cliConn, cliStop,
                 cliOut, cliIn, cliPending, cliSent, cliKeys, cliNotice>>

\* PtyWorker::spawn_command, one `self.fd.as_stdio()?`: a duplicate of the
\* worker descriptor, released from its FileDescriptor into a Stdio that the
\* Command owns. After the third the command is ready to spawn.
SpawnAsStdio ==
  /\ session = "as_stdio"
  /\ \E ok \in AllocResults(fds) :
       IF ok THEN /\ stdioFds' = stdioFds \cup {LowestFree(fds)}
                  /\ fds' = fds \cup {LowestFree(fds)}
                  /\ session' = IF Cardinality(stdioFds) = 2 THEN "spawn" ELSE "as_stdio"
                  /\ UNCHANGED openErr
             ELSE /\ session' = "return" /\ openErr' = TRUE
                  /\ fds' = fds \ stdioFds /\ stdioFds' = {}
  /\ UNCHANGED <<profile, shellExited, produced, ptyBuf, ptyIn, serverStop, registry,
                 lstPc, lstI, stopLog, lastAccept, aggEnd, aggPc, lateWrites, queue,
                 enqHist, conn, peerClosed, sockShut, stop, inPc, outPc, inHand, sockFill,
                 delivered, attachAt, departAt, lastRead, writerTaken, controllerFd,
                 workerFd, writerFd, writerLive, readers, takeLog, wroteAfter, winsize,
                 lastOk, resizeErr, values, closeLog, rawFds, cliConn, cliStop, cliOut,
                 cliIn, cliPending, cliSent, cliKeys, cliNotice>>

\* `cmd.spawn()?`, then spawn_command returns: either way the Command is
\* dropped and with it the parent's copies of the three descriptors.
SpawnCommand ==
  /\ session = "spawn"
  /\ \E ok \in BOOLEAN : openErr' = ~ok
  /\ fds' = fds \ stdioFds /\ stdioFds' = {}
  /\ session' = "return"
  /\ UNCHANGED <<profile, shellExited, produced, ptyBuf, ptyIn, serverStop, registry,
                 lstPc, lstI, stopLog, lastAccept, aggEnd, aggPc, lateWrites, queue,
                 enqHist, conn, peerClosed, sockShut, stop, inPc, outPc, inHand, sockFill,
                 delivered, attachAt, departAt, lastRead, writerTaken, controllerFd,
                 workerFd, writerFd, writerLive, readers, takeLog, wroteAfter, winsize,
                 lastOk, resizeErr, values, closeLog, rawFds, cliConn, cliStop, cliOut,
                 cliIn, cliPending, cliSent, cliKeys, cliNotice>>

\* `let child = worker.spawn_command(cmd)?;` and the end of Pty::open: the
\* worker goes out of scope (its descriptor is closed) and open returns Err,
\* or Ok with the controller descriptor wrapped in the PtyController.
OpenReturn ==
  /\ session = "return"
  /\ fds' = Close(fds, workerFd)
  /\ session' = IF openErr THEN "failed" ELSE "open"
  /\ UNCHANGED <<profile, shellExited, produced, ptyBuf, ptyIn, serverStop, registry,
                 lstPc, lstI, stopLog, lastAccept, aggEnd, aggPc, lateWrites, queue,
                 enqHist, conn, peerClosed, sockShut, stop, inPc, outPc, inHand, sockFill,
                 delivered, attachAt, departAt, lastRead, writerTaken, controllerFd,
                 workerFd, stdioFds, openErr, writerFd, writerLive, readers, takeLog,
                 wroteAfter, winsize, lastOk, resizeErr, values, closeLog, rawFds, cliConn,
                 cliStop, cliOut, cliIn, cliPending, cliSent, cliKeys, cliNotice>>

\* A call of Pty::take_writer on the open session.
TakeWriter ==
  /\ session = "open" /\ Len(takeLog) < MaxCalls
  /\ \E dupOk \in AllocResults(fds) :
       LET r == take_writer(writerTaken, dupOk) IN
       /\ writerTaken' = r.taken
       /\ takeLog' = Append(takeLog, r.err)
       /\ IF r.ok THEN /\ writerFd' = LowestFree(fds)
                       /\ fds' = fds \cup {LowestFree(fds)}
                       /\ writerLive' = TRUE
                  ELSE UNCHANGED <<writerFd, fds, writerLive>>
  /\ UNCHANGED <<profile, shellExited, produced, ptyBuf, ptyIn, serverStop, registry,
                 lstPc, lstI, stopLog, lastAccept, aggEnd, aggPc, lateWrites, queue,
                 enqHist, conn, peerClosed, sockShut, stop, inPc, outPc, inHand, sockFill,
                 delivered, attachAt, departAt, lastRead, session, controllerFd, workerFd,
                 stdioFds, openErr, readers, wroteAfter, winsize, lastOk, resizeErr,
                 values, closeLog, rawFds, cliConn, cliStop, cliOut, cliIn, cliPending,
                 cliSent, cliKeys, cliNotice>>

\* A call of Pty::try_clone_reader: a duplicate of the controller descriptor.
CloneReader ==
  /\ session = "open" /\ Cardinality(readers) < MaxReaders
  /\ \E dupOk \in AllocResults(fds) :
       IF dupOk THEN /\ readers' = readers \cup {LowestFree(fds)}
                     /\ fds' = fds \cup {LowestFree(fds)}
                ELSE UNCHANGED <<readers, fds>>
  /\ UNCHANGED <<profile, shellExited, produced, ptyBuf, ptyIn, serverStop, registry,
                 lstPc, lstI, stopLog, lastAccept, aggEnd, aggPc, lateWrites, queue,
                 enqHist, conn, peerClosed, sockShut, stop, inPc, outPc, inHand, sockFill,
                 delivered, attachAt, departAt, lastRead, writerTaken, session,
                 controllerFd, workerFd, stdioFds, openErr, writerFd, writerLive, takeLog,
                 wroteAfter, winsize, lastOk, resizeErr, values, closeLog, rawFds, cliConn,
                 cliStop, cliOut, cliIn, cliPending, cliSent, cliKeys, cliNotice>>

\* The owner of a reader handle drops it.
DropReader(h) ==
  /\ h \in readers
  /\ readers' = readers \ {h}
  /\ fds' = Close(fds, h)
  /\ UNCHANGED <<profile, shellExited, produced, ptyBuf, ptyIn, serverStop, registry,
                 lstPc, lstI, stopLog, lastAccept, aggEnd, aggPc, lateWrites, queue,
                 enqHist, conn, peerClosed, sockShut, stop, inPc, outPc, inHand, sockFill,
                 delivered, attachAt, departAt, lastRead, writerTaken, session,
                 controllerFd, workerFd, stdioFds, openErr, writerFd, writerLive, takeLog,
                 wroteAfter, winsize, lastOk, resizeErr, values, closeLog, rawFds, cliConn,
                 cliStop, cliOut, cliIn, cliPending, cliSent, cliKeys, cliNotice>>

\* A write through the writer handle: libc::write succeeds on an open
\* descriptor (and fails with EBADF on a closed one).
WriteHandle ==
  /\ writerLive /\ writerFd \in fds
  /\ wroteAfter # Len(takeLog)
  /\ wroteAfter' = Len(takeLog)
  /\ UNCHANGED <<profile, shellExited, produced, ptyBuf, ptyIn, serverStop, registry,
                 lstPc, lstI, stopLog, lastAccept, aggEnd, aggPc, lateWrites, queue,
                 enqHist, conn, peerClosed, sockShut, stop, inPc, outPc, inHand, sockFill,
                 delivered, attachAt, departAt, lastRead, writerTaken, fds, session,
                 controllerFd, workerFd, stdioFds, openErr, writerFd, writerLive, readers,
                 takeLog, winsize, lastOk, resizeErr, values, closeLog, rawFds, cliConn,
                 cliStop, cliOut, cliIn, cliPending, cliSent, cliKeys, cliNotice>>

\* The owner of the writer handle drops it.
DropWriter ==
  /\ writerLive
  /\ writerLive' = FALSE
  /\ fds' = Close(fds, writerFd)
  /\ UNCHANGED <<profile, shellExited, produced, ptyBuf, ptyIn, serverStop, registry,
                 lstPc, lstI, stopLog, lastAccept, aggEnd, aggPc, lateWrites, queue,
                 enqHist, conn, peerClosed, sockShut, stop, inPc, outPc, inHand, sockFill,
                 delivered, attachAt, departAt, lastRead, writerTaken, session,
                 controllerFd, workerFd, stdioFds, openErr, writerFd, readers, takeLog,
                 wroteAfter, winsize, lastOk, resizeErr, values, closeLog, rawFds, cliConn,
                 cliStop, cliOut, cliIn, cliPending, cliSent, cliKeys, cliNotice>>

\* impl Drop for Pty: the child is killed and the controller's
\* FileDescriptor is dropped.
DropPty ==
  /\ session = "open"
  /\ session' = "dropped"
  /\ fds' = Close(fds, controllerFd)
  /\ UNCHANGED <<profile, shellExited, produced, ptyBuf, ptyIn, serverStop, registry,
                 lstPc, lstI, stopLog, lastAccept, aggEnd, aggPc, lateWrites, queue,
                 enqHist, conn, peerClosed, sockShut, stop, inPc, outPc, inHand, sockFill,
                 delivered, attachAt, departAt, lastRead, writerTaken, controllerFd,
                 workerFd, stdioFds, openErr, writerFd, writerLive, readers, takeLog,
                 wroteAfter, winsize, lastOk, resizeErr, values, closeLog, rawFds, cliConn,
                 cliStop, cliOut, cliIn, cliPending, cliSent, cliKeys, cliNotice>>

\* Pty::resize on the open session: `ioctl(fd, TIOCSWINSZ, &size)` sets the
\* size, or fails (ret < 0) and sets nothing.
Resize ==
  /\ session = "open"
  /\ \E size \in PtySizes, ok \in BOOLEAN :
       IF ok THEN /\ winsize' = to_winsize(size)
                  /\ lastOk' = size
                  /\ resizeErr' = FALSE
             ELSE /\ resizeErr' = TRUE
                  /\ UNCHANGED <<winsize, lastOk>>
  /\ UNCHANGED <<profile, shellExited, produced, ptyBuf, ptyIn, serverStop, registry,
                 lstPc, lstI, stopLog, lastAccept, aggEnd, aggPc, lateWrites, queue,
                 enqHist, conn, peerClosed, sockShut, stop, inPc, outPc, inHand, sockFill,
                 delivered, attachAt, departAt, lastRead, writerTaken, fds, session,
                 controllerFd, workerFd, stdioFds, openErr, writerFd, writerLive, readers,
                 takeLog, wroteAfter, values, closeLog, rawFds, cliConn, cliStop, cliOut,
                 cliIn, cliPending, cliSent, cliKeys, cliNotice>>

\* Resizes on a session Pty::open has returned, until the session is dropped.
InitResize ==
  /\ profile = NoTraffic
  /\ SInit /\ writerTaken = FALSE
  /\ fds = {3} /\ session = "open" /\ controllerFd = 3 /\ workerFd = -1
  /\ stdioFds = {} /\ openErr = FALSE
  /\ writerFd = -1 /\ writerLive = FALSE /\ readers = {} /\ takeLog = <<>>
  /\ wroteAfter = -1
  /\ FInit /\ CInit /\ WInit

NextResize == Resize \/ DropPty

SpecResize == InitResize /\ [][NextResize]_vars

NextPty ==
  \/ OpenPosixOpenpt \/ OpenControllerStep \/ OpenWorker
  \/ SpawnAsStdio \/ SpawnCommand \/ OpenReturn
  \/ TakeWriter \/ CloneReader \/ WriteHandle \/ DropWriter \/ DropPty
  \/ \E h \in FdRange : DropReader(h)

SpecPty == InitPty /\ [][NextPty]_vars

\* ------------------------------------------------- FileDescriptor values
MaxValues == 4      \* FileDescriptor values created in a run

InitFd ==
  /\ profile = NoTraffic
  /\ SInit /\ writerTaken = FALSE
  /\ fds = {} /\ session = "none" /\ controllerFd = -1 /\ workerFd = -1
  /\ stdioFds = {} /\ openErr = FALSE
  /\ writerFd = -1 /\ writerLive = FALSE /\ readers = {} /\ takeLog = <<>>
  /\ wroteAfter = -1
  /\ FInit /\ CInit /\ WInit

\* FileDescriptor::new(fd): the value owns fd.
new(fd) == [fd |-> fd, st |-> "live"]

\* FileDescriptor::duplicate: `fcntl(fd, F_DUPFD_CLOEXEC, 0)`, and on success
\* FileDescriptor::new on the descriptor the kernel returned, the lowest
\* free one; on -1 an error and no value.
duplicate(table, v, ok) ==
  IF ok THEN [ok |-> TRUE, value |-> new(LowestFree(table)),
              table |-> table \cup {LowestFree(table)}]
        ELSE [ok |-> FALSE, value |-> v, table |-> table]

\* into_raw_fd with `std::mem::forget(self)` left out: the value is dropped
\* when the function returns.
into_raw_fd_dropping(table, v) ==
  [fd |-> v.fd, st |-> "dropped", table |-> table \ {v.fd}, closed |-> TRUE]

\* impl IntoRawFd: the descriptor is returned and the value forgotten, so
\* its Drop never runs.
into_raw_fd(table, v) ==
  [fd |-> v.fd, st |-> "forgotten", table |-> table, closed |-> FALSE]

\* What a released value leaves in the log of closes.
Released(log, by, r) ==
  IF r.closed THEN Append(log, [by |-> by, fd |-> r.fd, ok |-> TRUE]) ELSE log

\* A descriptor is opened and wrapped, as at src/pty.rs:59-66.
FdNew ==
  /\ Len(values) < MaxValues /\ HasFree(fds)
  /\ values' = Append(values, new(LowestFree(fds)))
  /\ fds' = fds \cup {LowestFree(fds)}
  /\ UNCHANGED <<profile, shellExited, produced, ptyBuf, ptyIn, serverStop, registry,
                 lstPc, lstI, stopLog, lastAccept, aggEnd, aggPc, lateWrites, queue,
                 enqHist, conn, peerClosed, sockShut, stop, inPc, outPc, inHand, sockFill,
                 delivered, attachAt, departAt, lastRead, writerTaken, session,
                 controllerFd, workerFd, stdioFds, openErr, writerFd, writerLive, readers,
                 takeLog, wroteAfter, winsize, lastOk, resizeErr, closeLog, rawFds,
                 cliConn, cliStop, cliOut, cliIn, cliPending, cliSent, cliKeys, cliNotice>>

\* v.duplicate() on a live value.
FdDuplicate(i) ==
  /\ i \in 1..Len(values) /\ values[i].st = "live" /\ Len(values) < MaxValues
  /\ \E ok \in AllocResults(fds) :
       LET d == duplicate(fds, values[i], ok) IN
       IF d.ok THEN /\ values' = Append(values, d.value) /\ fds' = d.table
               ELSE UNCHANGED <<values, fds>>
  /\ UNCHANGED <<profile, shellExited, produced, ptyBuf, ptyIn, serverStop, registry,
                 lstPc, lstI, stopLog, lastAccept, aggEnd, aggPc, lateWrites, queue,
                 enqHist, conn, peerClosed, sockShut, stop, inPc, outPc, inHand, sockFill,
                 delivered, attachAt, departAt, lastRead, writerTaken, session,
                 controllerFd, workerFd, stdioFds, openErr, writerFd, writerLive, readers,
                 takeLog, wroteAfter, winsize, lastOk, resizeErr, closeLog, rawFds,
                 cliConn, cliStop, cliOut, cliIn, cliPending, cliSent, cliKeys, cliNotice>>

\* v.as_stdio() on a live value: duplicate()?, into_raw_fd() on the
\* duplicate, and a Stdio that owns the released descriptor.
FdAsStdio(i) ==
  /\ i \in 1..Len(values) /\ values[i].st = "live" /\ Len(values) < MaxValues
  /\ \E ok \in AllocResults(fds) :
       LET d == duplicate(fds, values[i], ok) IN
       IF d.ok
       THEN LET r == into_raw_fd(d.table, d.value) IN
            /\ values' = Append(values, [fd |-> r.fd, st |-> r.st])
            /\ fds' = r.table
            /\ rawFds' = rawFds \cup {r.fd}
            /\ closeLog' = Released(closeLog, Len(values) + 1, r)
       ELSE UNCHANGED <<values, fds, rawFds, closeLog>>
  /\ UNCHANGED <<profile, shellExited, produced, ptyBuf, ptyIn, serverStop, registry,
                 lstPc, lstI, stopLog, lastAccept, aggEnd, aggPc, lateWrites, queue,
                 enqHist, conn, peerClosed, sockShut, stop, inPc, outPc, inHand, sockFill,
                 delivered, attachAt, departAt, lastRead, writerTaken, session,
                 controllerFd, workerFd, stdioFds, openErr, writerFd, writerLive, readers,
                 takeLog, wroteAfter, winsize, lastOk, resizeErr, cliConn, cliStop, cliOut,
                 cliIn, cliPending, cliSent, cliKeys, cliNotice>>

\* v.into_raw_fd() on a live value; the caller owns the descriptor now.
FdIntoRawFd(i) ==
  /\ i \in 1..Len(values) /\ values[i].st = "live"
  /\ LET r == into_raw_fd(fds, values[i]) IN
       /\ values' = [values EXCEPT ![i].st = r.st]
       /\ fds' = r.table
       /\ rawFds' = rawFds \cup {r.fd}
       /\ closeLog' = Released(closeLog, i, r)
  /\ UNCHANGED <<profile, shellExited, produced, ptyBuf, ptyIn, serverStop, registry,
                 lstPc, lstI, stopLog, lastAccept, aggEnd, aggPc, lateWrites, queue,
                 enqHist, conn, peerClosed, sockShut, stop, inPc, outPc, inHand, sockFill,
                 delivered, attachAt, departAt, lastRead, writerTaken, session,
                 controllerFd, workerFd, stdioFds, openErr, writerFd, writerLive, readers,
                 takeLog, wroteAfter, winsize, lastOk, resizeErr, cliConn, cliStop, cliOut,
                 cliIn, cliPending, cliSent, cliKeys, cliNotice>>

\* A live value goes out of scope: Drop runs, `libc::close(self.fd)`; the
\* close fails (and is only reported) when the descriptor is not open.
FdDrop(i) ==
  /\ i \in 1..Len(values) /\ values[i].st = "live"
  /\ values' = [values EXCEPT ![i].st = "dropped"]
  /\ closeLog' = Append(closeLog, [by |-> i, fd |-> values[i].fd,
                                   ok |-> values[i].fd \in fds])
  /\ fds' = Close(fds, values[i].fd)
  /\ UNCHANGED <<profile, shellExited, produced, ptyBuf, ptyIn, serverStop, registry,
                 lstPc, lstI, stopLog, lastAccept, aggEnd, aggPc, lateWrites, queue,
                 enqHist, conn, peerClosed, sockShut, stop, inPc, outPc, inHand, sockFill,
                 delivered, attachAt, departAt, lastRead, writerTaken, session,
                 controllerFd, workerFd, stdioFds, openErr, writerFd, writerLive, readers,
                 takeLog, wroteAfter, winsize, lastOk, resizeErr, rawFds, cliConn, cliStop,
                 cliOut, cliIn, cliPending, cliSent, cliKeys, cliNotice>>

\* The owner of a released descriptor (the Stdio, when the Command is
\* dropped) closes it.
RawClose(n) ==
  /\ n \in rawFds
  /\ rawFds' = rawFds \ {n}
  /\ fds' = fds \ {n}
  /\ UNCHANGED <<profile, shellExited, produced, ptyBuf, ptyIn, serverStop, registry,
                 lstPc, lstI, stopLog, lastAccept, aggEnd, aggPc, lateWrites, queue,
                 enqHist, conn, peerClosed, sockShut, stop, inPc, outPc, inHand, sockFill,
                 delivered, attachAt, departAt, lastRead, writerTaken, session,
                 controllerFd, workerFd, stdioFds, openErr, writerFd, writerLive, readers,
                 takeLog, wroteAfter, winsize, lastOk, resizeErr, values, closeLog,
                 cliConn, cliStop, cliOut, cliIn, cliPending, cliSent, cliKeys, cliNotice>>

NextFd ==
  \/ FdNew
  \/ \E i \in 1..MaxValues : FdDuplicate(i)
  \/ \E i \in 1..MaxValues : FdAsStdio(i)
  \/ \E i \in 1..MaxValues : FdIntoRawFd(i)
  \/ \E i \in 1..MaxValues : FdDrop(i)
  \/ \E n \in FdRange : RawClose(n)

SpecFd == InitFd /\ [][NextFd]_vars

\* ----------------------------------------------------- the client program
MaxKeys == 2        \* reads of stdin that return typed input

InitClient ==
  /\ profile = NoTraffic
  /\ SInit /\ writerTaken = FALSE
  /\ fds = {} /\ session = "none" /\ controllerFd = -1 /\ workerFd = -1
  /\ stdioFds = {} /\ openErr = FALSE
  /\ writerFd = -1 /\ writerLive = FALSE /\ readers = {} /\ takeLog = <<>>
  /\ wroteAfter = -1
  /\ FInit /\ CInit /\ WInit

\* The process runs until main returns.
CliAlive == cliIn # "exited"

\* The server writes a chunk of output to the connection.
ServerSend ==
  /\ CliAlive /\ cliConn = "open" /\ cliSent < MaxOut
  /\ cliSent' = cliSent + 1
  /\ cliPending' = cliPending + 1
  /\ UNCHANGED <<profile, shellExited, produced, ptyBuf, ptyIn, serverStop, registry,
                 lstPc, lstI, stopLog, lastAccept, aggEnd, aggPc, lateWrites, queue,
                 enqHist, conn, peerClosed, sockShut, stop, inPc, outPc, inHand, sockFill,
                 delivered, attachAt, departAt, lastRead, writerTaken, fds, session,
                 controllerFd, workerFd, stdioFds, openErr, writerFd, writerLive, readers,
                 takeLog, wroteAfter, winsize, lastOk, resizeErr, values, closeLog, rawFds,
                 cliConn, cliStop, cliOut, cliIn, cliKeys, cliNotice>>

\* The server's side of the connection ends: the server shuts the socket
\* down, closes it, or its process ends.
ServerEnd ==
  /\ CliAlive /\ cliConn = "open"
  /\ cliConn' = "ended"
  /\ UNCHANGED <<profile, shellExited, produced, ptyBuf, ptyIn, serverStop, registry,
                 lstPc, lstI, stopLog, lastAccept, aggEnd, aggPc, lateWrites, queue,
                 enqHist, conn, peerClosed, sockShut, stop, inPc, outPc, inHand, sockFill,
                 delivered, attachAt, departAt, lastRead, writerTaken, fds, session,
                 controllerFd, workerFd, stdioFds, openErr, writerFd, writerLive, readers,
                 takeLog, wroteAfter, winsize, lastOk, resizeErr, values, closeLog, rawFds,
                 cliStop, cliOut, cliIn, cliPending, cliSent, cliKeys, cliNotice>>

\* The draw thread, `write!(stdout, "{}{}", clear::All, ...).unwrap()`: a
\* failed write panics the thread, which ends without storing the flag.
CliOutClear ==
  /\ CliAlive /\ cliOut = "clear"
  /\ \E ok \in BOOLEAN : cliOut' = IF ok THEN "check" ELSE "panicked"
  /\ UNCHANGED <<profile, shellExited, produced, ptyBuf, ptyIn, serverStop, registry,
                 lstPc, lstI, stopLog, lastAccept, aggEnd, aggPc, lateWrites, queue,
                 enqHist, conn, peerClosed, sockShut, stop, inPc, outPc, inHand, sockFill,
                 delivered, attachAt, departAt, lastRead, writerTaken, fds, session,
                 controllerFd, workerFd, stdioFds, openErr, writerFd, writerLive, readers,
                 takeLog, wroteAfter, winsize, lastOk, resizeErr, values, closeLog, rawFds,
                 cliConn, cliStop, cliIn, cliPending, cliSent, cliKeys, cliNotice>>

\* `if stop.load(Relaxed) { break; }`, and after the loop
\* `stop.store(true, Relaxed)`.
CliOutCheck ==
  /\ CliAlive /\ cliOut = "check"
  /\ cliOut' = IF cliStop THEN "done" ELSE "read"
  /\ UNCHANGED <<profile, shellExited, produced, ptyBuf, ptyIn, serverStop, registry,
                 lstPc, lstI, stopLog, lastAccept, aggEnd, aggPc, lateWrites, queue,
                 enqHist, conn, peerClosed, sockShut, stop, inPc, outPc, inHand, sockFill,
                 delivered, attachAt, departAt, lastRead, writerTaken, fds, session,
                 controllerFd, workerFd, stdioFds, openErr, writerFd, writerLive, readers,
                 takeLog, wroteAfter, winsize, lastOk, resizeErr, values, closeLog, rawFds,
                 cliConn, cliStop, cliIn, cliPending, cliSent, cliKeys, cliNotice>>

\* server_out.read returns a chunk.
CliOutReadData ==
  /\ CliAlive /\ cliOut = "read" /\ cliPending > 0
  /\ cliPending' = cliPending - 1
  /\ cliOut' = "write"
  /\ UNCHANGED <<profile, shellExited, produced, ptyBuf, ptyIn, serverStop, registry,
                 lstPc, lstI, stopLog, lastAccept, aggEnd, aggPc, lateWrites, queue,
                 enqHist, conn, peerClosed, sockShut, stop, inPc, outPc, inHand, sockFill,
                 delivered, attachAt, departAt, lastRead, writerTaken, fds, session,
                 controllerFd, workerFd, stdioFds, openErr, writerFd, writerLive, readers,
                 takeLog, wroteAfter, winsize, lastOk, resizeErr, values, closeLog, rawFds,
                 cliConn, cliStop, cliIn, cliSent, cliKeys, cliNotice>>

\* server_out.read returns Ok(0) or an error: break, and the flag is stored.
CliOutReadEnd ==
  /\ CliAlive /\ cliOut = "read" /\ cliPending = 0 /\ cliConn = "ended"
  /\ cliOut' = "done"
  /\ cliStop' = TRUE
  /\ UNCHANGED <<profile, shellExited, produced, ptyBuf, ptyIn, serverStop, registry,
                 lstPc, lstI, stopLog, lastAccept, aggEnd, aggPc, lateWrites, queue,
                 enqHist, conn, peerClosed, sockShut, stop, inPc, outPc, inHand, sockFill,
                 delivered, attachAt, departAt, lastRead, writerTaken, fds, session,
                 controllerFd, workerFd, stdioFds, openErr, writerFd, writerLive, readers,
                 takeLog, wroteAfter, winsize, lastOk, resizeErr, values, closeLog, rawFds,
                 cliConn, cliIn, cliPending, cliSent, cliKeys, cliNotice>>

\* stdout.write_all and stdout.flush: on an error break, and the flag is
\* stored; otherwise the next turn of the loop.
CliOutWrite ==
  /\ CliAlive /\ cliOut = "write"
  /\ \E ok \in BOOLEAN :
       IF ok THEN cliOut' = "check" /\ UNCHANGED cliStop
             ELSE cliOut' = "done" /\ cliStop' = TRUE
  /\ UNCHANGED <<profile, shellExited, produced, ptyBuf, ptyIn, serverStop, registry,
                 lstPc, lstI, stopLog, lastAccept, aggEnd, aggPc, lateWrites, queue,
                 enqHist, conn, peerClosed, sockShut, stop, inPc, outPc, inHand, sockFill,
                 delivered, attachAt, departAt, lastRead, writerTaken, fds, session,
                 controllerFd, workerFd, stdioFds, openErr, writerFd, writerLive, readers,
                 takeLog, wroteAfter, winsize, lastOk, resizeErr, values, closeLog, rawFds,
                 cliConn, cliIn, cliPending, cliSent, cliKeys, cliNotice>>

\* process_input, `if stop.load(Relaxed) { break; }`
CliInCheck ==
  /\ CliAlive /\ cliIn = "check"
  /\ cliIn' = IF cliStop THEN "store" ELSE "stdin"
  /\ UNCHANGED <<profile, shellExited, produced, ptyBuf, ptyIn, serverStop, registry,
                 lstPc, lstI, stopLog, lastAccept, aggEnd, aggPc, lateWrites, queue,
                 enqHist, conn, peerClosed, sockShut, stop, inPc, outPc, inHand, sockFill,
                 delivered, attachAt, departAt, lastRead, writerTaken, fds, session,
                 controllerFd, workerFd, stdioFds, openErr, writerFd, writerLive, readers,
                 takeLog, wroteAfter, winsize, lastOk, resizeErr, values, closeLog, rawFds,
                 cliConn, cliStop, cliOut, cliPending, cliSent, cliKeys, cliNotice>>

\* stdin.read on the non-blocking stdin: what the user typed, WouldBlock
\* (sleep 5 ms and loop), or another error (break).
CliInStdin ==
  /\ CliAlive /\ cliIn = "stdin"
  /\ \E r \in {"ok", "would block", "error"} :
       /\ r = "ok" => cliKeys < MaxKeys
       /\ cliKeys' = IF r = "ok" THEN cliKeys + 1 ELSE cliKeys
       /\ cliIn' = CASE r = "ok" -> "check2"
                     [] r = "would block" -> "check"
                     [] r = "error" -> "store"
  /\ UNCHANGED <<profile, shellExited, produced, ptyBuf, ptyIn, serverStop, registry,
                 lstPc, lstI, stopLog, lastAccept, aggEnd, aggPc, lateWrites, queue,
                 enqHist, conn, peerClosed, sockShut, stop, inPc, outPc, inHand, sockFill,
                 delivered, attachAt, departAt, lastRead, writerTaken, fds, session,
                 controllerFd, workerFd, stdioFds, openErr, writerFd, writerLive, readers,
                 takeLog, wroteAfter, winsize, lastOk, resizeErr, values, closeLog, rawFds,
                 cliConn, cliStop, cliOut, cliPending, cliSent, cliNotice>>

\* The second `if stop.load(Relaxed) { break; }`, after the read.
CliInCheck2 ==
  /\ CliAlive /\ cliIn = "check2"
  /\ cliIn' = IF cliStop THEN "store" ELSE "write"
  /\ UNCHANGED <<profile, shellExited, produced, ptyBuf, ptyIn, serverStop, registry,
                 lstPc, lstI, stopLog, lastAccept, aggEnd, aggPc, lateWrites, queue,
                 enqHist, conn, peerClosed, sockShut, stop, inPc, outPc, inHand, sockFill,
                 delivered, attachAt, departAt, lastRead, writerTaken, fds, session,
                 controllerFd, workerFd, stdioFds, openErr, writerFd, writerLive, readers,
                 takeLog, wroteAfter, winsize, lastOk, resizeErr, values, closeLog, rawFds,
                 cliConn, cliStop, cliOut, cliPending, cliSent, cliKeys, cliNotice>>

\* server_in.write: an error (the connection has ended) breaks.
CliInWrite ==
  /\ CliAlive /\ cliIn = "write"
  /\ cliIn' = IF cliConn = "ended" THEN "store" ELSE "check"
  /\ UNCHANGED <<profile, shellExited, produced, ptyBuf, ptyIn, serverStop, registry,
                 lstPc, lstI, stopLog, lastAccept, aggEnd, aggPc, lateWrites, queue,
                 enqHist, conn, peerClosed, sockShut, stop, inPc, outPc, inHand, sockFill,
                 delivered, attachAt, departAt, lastRead, writerTaken, fds, session,
                 controllerFd, workerFd, stdioFds, openErr, writerFd, writerLive, readers,
                 takeLog, wroteAfter, winsize, lastOk, resizeErr, values, closeLog, rawFds,
                 cliConn, cliStop, cliOut, cliPending, cliSent, cliKeys, cliNotice>>

\* After the loop: `stop.store(true, Relaxed)`, and process_input returns.
CliInStore ==
  /\ CliAlive /\ cliIn = "store"
  /\ cliStop' = TRUE
  /\ cliIn' = "print"
  /\ UNCHANGED <<profile, shellExited, produced, ptyBuf, ptyIn, serverStop, registry,
                 lstPc, lstI, stopLog, lastAccept, aggEnd, aggPc, lateWrites, queue,
                 enqHist, conn, peerClosed, sockShut, stop, inPc, outPc, inHand, sockFill,
                 delivered, attachAt, departAt, lastRead, writerTaken, fds, session,
                 controllerFd, workerFd, stdioFds, openErr, writerFd, writerLive, readers,
                 takeLog, wroteAfter, winsize, lastOk, resizeErr, values, closeLog, rawFds,
                 cliConn, cliOut, cliPending, cliSent, cliKeys, cliNotice>>

\* main: run() has returned Ok, `println!("rstmux client exited")`, and the
\* process ends.
CliPrint ==
  /\ cliIn = "print"
  /\ cliNotice' = TRUE
  /\ cliIn' = "exited"
  /\ UNCHANGED <<profile, shellExited, produced, ptyBuf, ptyIn, serverStop, registry,
                 lstPc, lstI, stopLog, lastAccept, aggEnd, aggPc, lateWrites, queue,
                 enqHist, conn, peerClosed, sockShut, stop, inPc, outPc, inHand, sockFill,
                 delivered, attachAt, departAt, lastRead, writerTaken, fds, session,
                 controllerFd, workerFd, stdioFds, openErr, writerFd, writerLive, readers,
                 takeLog, wroteAfter, winsize, lastOk, resizeErr, values, closeLog, rawFds,
                 cliConn, cliStop, cliOut, cliPending, cliSent, cliKeys>>

CliOutput == CliOutClear \/ CliOutCheck \/ CliOutReadData \/ CliOutReadEnd \/ CliOutWrite
CliInput == CliInCheck \/ CliInStdin \/ CliInCheck2 \/ CliInWrite \/ CliInStore \/ CliPrint

NextClient == ServerSend \/ ServerEnd \/ CliOutput \/ CliInput

SpecClient == InitClient /\ [][NextClient]_vars

\* Both threads of the client are scheduled; the server and the user (what
\* stdin.read returns) are never forced.
FairSpecClient == SpecClient /\ WF_vars(CliOutput) /\ WF_vars(CliInput)

\* ================================================================= claims
\* The part of a client's delivered stream made of chunks produced after k.
After(s, k) == SelectSeq(s, LAMBDA id : id > k)

Comparable(s, t) == IsPrefix(s, t) \/ IsPrefix(t, s)

Max(a, b) == IF a >= b THEN a ELSE b

\* C1: any two attached clients are delivered the same stream in the same
\* order: from the moment both are attached, what one has been sent is a
\* prefix of what the other has been sent.
C1_SameStream ==
  \A c, d \in Clients :
    (conn[c] = "accepted" /\ conn[d] = "accepted") =>
      LET k == Max(attachAt[c], attachAt[d]) IN
      Comparable(After(delivered[c], k), After(delivered[d], k))

\* The chunks offered to the PTY, in write order, and the bytes it took.
Written == [i \in 1..Len(ptyIn) |-> ptyIn[i].ch]
PtyBytes == Flatten([i \in 1..Len(ptyIn) |-> SubSeq(Bytes(ptyIn[i].ch), 1, ptyIn[i].acc)])
WholeChunks(s) == Flatten([i \in 1..Len(s) |-> Bytes(s[i])])

\* C2: the byte stream the PTY has received is the concatenation of the
\* complete chunks the aggregator took off the queue: no chunk is truncated.
C2_ChunksWhole == PtyBytes = WholeChunks(Written)

\* C3: once the shell has exited, the server terminates.
C3_ShellExitTerminates == shellExited ~> (aggPc = "exited")

\* C4: of all the take_writer calls on a session at most one returns a
\* handle, every call after it fails with "writer already taken", and the
\* handle, until its owner drops it, is an open descriptor of its own.
C4_OneWriter ==
  /\ \A i, j \in 1..Len(takeLog) :
       (takeLog[i] = "none" /\ i < j) => takeLog[j] = "writer already taken"
  /\ writerLive => (writerFd \in fds /\ writerFd # controllerFd /\ writerFd \notin readers)
C4_Witness ==
  /\ Len(takeLog) >= 2 /\ takeLog[1] = "none"
  /\ takeLog[2] = "writer already taken" /\ wroteAfter >= 2

\* C5: a client is sent no chunk that was produced before it attached.
C5_NoReplay ==
  \A c \in Clients : \A i \in 1..Len(delivered[c]) : delivered[c][i] > attachAt[c]

\* C6: after a client has gone away, every chunk produced from then on and
\* taken out of the PTY has gone to every remaining attached client.
C6_RemainingKeepReceiving ==
  \A a, b \in Clients :
    (a # b /\ peerClosed[a] /\ conn[b] = "accepted" /\ ~SockEof(b) /\ ~stop[b]) =>
      \A k \in 1..produced :
        (k > departAt[a] /\ k > attachAt[b] /\ k \notin Range(ptyBuf)) =>
          (k \in Range(delivered[b]) \/ inHand[b] = k)

\* C7: a connection whose stop flag is set has had its socket shut down in
\* both directions.
C7_StopImpliesShutdown == \A c \in Clients : stop[c] => sockShut[c]

\* C8: the chunks written to the PTY are, in order, the first chunks sent on
\* the aggregation queue; so each client's chunks are written in the order
\* its input pump read them.
OfClient(s, c) == SelectSeq(s, LAMBDA ch : ch.c = c)
C8_QueueOrder ==
  /\ IsPrefix(Written, enqHist)
  /\ \A c \in Clients : IsPrefix(OfClient(Written, c), OfClient(enqHist, c))
C8_Witness ==
  /\ Len(ptyIn) = 2 /\ ptyIn[1].ch.c # ptyIn[2].ch.c

\* C9: a client whose output pump is blocked on a full socket buffer is
\* disconnected, unless it drains after all or the whole process ends: the
\* pump does not stay blocked for ever.
Overflow(c) == outPc[c] = "write" /\ sockFill[c] = SockCap /\ ~SockEof(c)
C9_OverflowDisconnects ==
  \A c \in Clients : Overflow(c) ~> (stop[c] \/ ~Overflow(c) \/ ~Alive)

\* C10: when Pty::open has returned an error, the controller descriptor it
\* had opened is closed.
C10_NoLeakOnFailure == session = "failed" => controllerFd \notin fds

\* C11: over any sequence of new, duplicate, as_stdio, into_raw_fd and drop,
\* a value that has been dropped closed its descriptor exactly once and the
\* close found it open; a live or forgotten value has closed nothing; the
\* descriptor of a live value is open and is no other live value's (dropping
\* a duplicate does not close the original, nor the reverse); and a released
\* descriptor stays open until the owner it was released to closes it.
Closes(i) == {k \in 1..Len(closeLog) : closeLog[k].by = i}
C11_ClosedOnce ==
  /\ \A i \in 1..Len(values) :
       /\ Cardinality(Closes(i)) = IF values[i].st = "dropped" THEN 1 ELSE 0
       /\ \A k \in Closes(i) : closeLog[k].ok /\ closeLog[k].fd = values[i].fd
       /\ values[i].st = "live" => values[i].fd \in fds \ rawFds
  /\ \A i, j \in 1..Len(values) :
       (i # j /\ values[i].st = "live" /\ values[j].st = "live")
         => values[i].fd # values[j].fd
  /\ rawFds \subseteq fds
\* A duplicate has been dropped and its descriptor number handed out again
\* while the original is live, and a released descriptor is still open.
C11_Witness ==
  /\ Len(values) >= 3 /\ values[1].st = "live" /\ values[2].st = "dropped"
  /\ \E j \in 3..Len(values) : values[j].st = "forgotten" /\ values[j].fd = values[2].fd
  /\ rawFds # {}

\* C12: a read on a FileDescriptor returns Ok(0) when the OS read fails with
\* EIO, the error for every other OS failure and the byte count on success;
\* so no output pump's read of the PTY has returned an error, and a pump that
\* left its loop in the read after the shell's exit did so on Ok(0).
C12_EioIsEof ==
  /\ \A os \in OsReads :
       /\ (os.size = -1 /\ os.errno = "EIO") => read(os) = Ok(0)
       /\ (os.size = -1 /\ os.errno # "EIO") => read(os) = Err(os.errno)
       /\ os.size >= 0 => read(os) = Ok(os.size)
  /\ \A c \in Clients :
       /\ lastRead[c].ok \/ lastRead[c] = Unread
       /\ (outPc[c] = "done" /\ lastRead[c] = Ok(0)) => shellExited
C12_Witness ==
  \E c \in Clients : shellExited /\ outPc[c] = "done" /\ lastRead[c] = Ok(0)

\* C13: when the listener has left its loop, every connection in the
\* registry that the shutdown loop has passed has been asked to stop, and
\* when the loop is over all of them have, whatever the earlier stops
\* returned.
Asked(c) == \E k \in 1..Len(stopLog) : stopLog[k].c = c
C13_AllAskedToStop ==
  lstPc \in {"stopping", "done"} =>
    \A k \in 1..Len(registry) : (k < lstI \/ lstPc = "done") => Asked(registry[k])
C13_Witness ==
  /\ lstPc = "done" /\ Len(registry) = 2 /\ Len(stopLog) = 2
  /\ ~stopLog[1].ok /\ stopLog[2].ok

\* C14: no step of any thread takes a stop flag, per connection or
\* server-wide, from true back to false; storing it again leaves it true.
C14_FlagsMonotonic ==
  [][/\ \A c \in Clients : stop[c] => stop'[c]
     /\ serverStop => serverStop']_vars
\* A connection's flag stored by both its pumps and by Client::stop, and
\* the server's flag stored by the listener and by the consumer.
C14_Witness ==
  /\ \E c \in Clients : stop[c] /\ sockShut[c] /\ inPc[c] = "done" /\ outPc[c] = "done"
  /\ serverStop /\ lstPc = "done" /\ aggPc = "done"

\* C15: once the client's connection to the server has ended, the client
\* prints its termination notice and exits.
C15_ClientExits == (cliConn = "ended") ~> cliNotice

\* C16: the terminal size on the PTY is the (rows, cols, pixel_width,
\* pixel_height) of the last resize that returned Ok, field by field, and the
\* size it was opened with while none has; a resize that returned an error
\* has left it as it was.
C16_SizeIsLastOk ==
  IF lastOk = NoResize THEN winsize = UnsetSize
  ELSE /\ winsize.ws_row = lastOk.rows /\ winsize.ws_col = lastOk.cols
       /\ winsize.ws_xpixel = lastOk.pixel_width
       /\ winsize.ws_ypixel = lastOk.pixel_height
C16_Witness ==
  /\ resizeErr /\ lastOk # NoResize
  /\ lastOk.rows # lastOk.cols /\ lastOk.pixel_width # lastOk.pixel_height
  /\ winsize.ws_row = lastOk.rows /\ winsize.ws_xpixel = lastOk.pixel_width

\* C17: end-of-stream or an I/O error on a connection stays with that
\* connection. A connection's flag is set only for a cause of its own (its
\* peer gone, its socket shut down by Client::stop) or a cause of the whole
\* server (the shell gone, the consumer gone); and the server's flag is
\* raised, the listener out of its loop or the consumer out of its loop only
\* after the shell has exited, accept has failed, or take_writer or a write
\* to the PTY has failed: never because of what happened on a connection.
ServerCause ==
  shellExited \/ lastAccept = "error" \/ aggEnd \in {"take_writer", "write error"}
C17_ErrorsStayLocal ==
  /\ \A d \in Clients :
       stop[d] => (peerClosed[d] \/ sockShut[d] \/ shellExited
                   \/ aggPc \in {"done", "exited"})
  /\ (serverStop \/ lstPc \in {"stopping", "done"} \/ aggPc \in {"done", "exited"})
       => ServerCause
\* One connection has met an error on its socket and both its pumps have
\* ended, while the other connection, the listener and the consumer go on.
C17_Witness ==
  \E c, d \in Clients :
    /\ c # d /\ peerClosed[c] /\ stop[c] /\ inPc[c] = "done" /\ outPc[c] = "done"
    /\ Len(delivered[c]) = 0 /\ produced = 1 /\ ptyBuf = <<>> /\ inHand[d] = 0
    /\ conn[d] = "accepted" /\ ~stop[d] /\ inPc[d] = "read" /\ outPc[d] = "read"
    /\ ~serverStop /\ aggPc = "recv" /\ lstPc \in {"loop", "ptycheck"}

\* C18: a connection that has been removed from the registry has no pump
\* thread left: its input pump and its output pump have both ended.
Evicted(c) == conn[c] = "accepted" /\ c \notin Range(registry)
C18_EvictedOnlyClosed ==
  \A c \in Clients : Evicted(c) => (inPc[c] = "done" /\ outPc[c] = "done")

\* C19: a registered connection whose flag is set is removed from the
\* registry by the listener, whether or not another client connects, unless
\* the listener leaves its loop or the process ends first.
Registered(c) == c \in Range(registry)
C19_StoppedIsReclaimed ==
  \A c \in Clients :
    (Registered(c) /\ stop[c])
      ~> (~Registered(c) \/ lstPc \in {"stopping", "done"} \/ ~Alive)

\* C20: a step in which accept would block sets no flag, shuts no socket
\* down and leaves the registry alone, and the listener stays in its loop;
\* after any other accept error the listener is out of its loop, and then
\* every registered connection is asked to stop and the server's flag is
\* raised (unless the process ends first).
ShutDown ==
  /\ lstPc = "done" /\ serverStop
  /\ \A k \in 1..Len(registry) : Asked(registry[k])
C20_AcceptOutcomes ==
  /\ [][(lstPc = "loop" /\ lastAccept' = "would block")
          => (lstPc' = "ptycheck"
              /\ UNCHANGED <<serverStop, stop, sockShut, registry, stopLog>>)]_vars
  /\ [](lastAccept = "error" => lstPc \in {"stopping", "done"})
  /\ (lastAccept = "error") ~> (ShutDown \/ ~Alive)
C20_Witness ==
  /\ lastAccept = "error" /\ ShutDown /\ Len(registry) = 2 /\ Alive

\* C23: a take_writer call that fails because the controller descriptor could
\* not be duplicated leaves writer_taken false, and a later call can then
\* return a handle; writer_taken is true exactly when some call has returned
\* a handle.
C23_FailedTakeKeepsFlag ==
  /\ writerTaken <=> (\E i \in 1..Len(takeLog) : takeLog[i] = "none")
  /\ \A i \in 1..Len(takeLog) :
       takeLog[i] = "writer already taken" => (\E j \in 1..(i - 1) : takeLog[j] = "none")
C23_Witness ==
  /\ Len(takeLog) >= 2 /\ takeLog[1] = "os error" /\ takeLog[2] = "none"
  /\ writerTaken /\ writerLive

\* C21: of the pty_in.write calls the consumer makes, at most one is made
\* with the server's stop flag already true, and after that one the consumer
\* does not wait on the queue again: it is at its stop check or out of its
\* loop.
C21_OneLateWrite ==
  /\ lateWrites <= 1
  /\ lateWrites = 1 => aggPc \in {"check", "done", "exited"}
C21_Witness ==
  /\ lateWrites = 1 /\ aggEnd = "stop flag" /\ queue # <<>>
  /\ Len(ptyIn) = 1 /\ lstPc = "loop"

\* C22: once a write to the PTY has failed in the consumer, the server's stop
\* flag is set, and from then on the listener eventually is out of its loop
\* with every registered connection asked to stop.
C22_WriteErrorStopsAll ==
  /\ [](aggEnd = "write error" => serverStop)
  /\ (aggEnd = "write error") ~> ShutDown

====
